---- MODULE Spec2Model ----
(***************************************************************************)
(* Model of the queueue crate: the ticketed MPMC ring queue                *)
(* (src/src/queue/nonblocking.rs, src/src/slot.rs), its slot sequencers    *)
(* (src/src/queue/sequencer.rs) and the hierarchical timing wheel          *)
(* (src/src/timing_wheel/hierarchical.rs).                                 *)
(*                                                                         *)
(* Every atomic load, store and compare-and-swap of the queue is one step  *)
(* of the thread that performs it; the steps of different threads          *)
(* interleave freely.  The wheel is single-threaded, so each of its calls  *)
(* is one step.                                                            *)
(***************************************************************************)
EXTENDS Integers, Sequences, FiniteSets, Bags, TLC

(***************************************************************************)
(* Bounds of the model.                                                    *)
(***************************************************************************)
\* Capacity of the ring: the const generic N of StaticQueue.
N == 2
\* No push call starts once this many push tickets have been issued: in the
\* runs of four threads, and in the runs of one or two threads.
MaxTicket == 3
MaxTicketFew == 6
\* The runs under a fair scheduler spawn at most this many threads.
MaxLive == 3
\* Wheel<T, S, LEVEL, CUTOFF>: LEVEL levels of W = 2^CUTOFF buckets each.
LEVEL == 3
CUTOFF == 2
\* Capacity of a BoundedSlot bucket: the const generic N of BoundedSlot.
M == 1
\* Ticks handed to schedule and fast_forward are 0..MaxTick.
MaxTick == 21
\* schedule is called at most MaxItems times; the k-th call carries payload k.
MaxItems == 2
\* core::mem::size_of::<usize>() * 8
BITCOUNT_TOT == 64
\* The values wait_until waits for and update_next stores are 0..MaxSeq.
MaxSeq == 2

Producers == {"p1", "p2"}
Consumers == {"c1", "c2"}
\* The single thread of the sequential runs, and the two threads of SPSC.
SeqThreads == {"p1"}
SpscProducers == {"p1"}
SpscConsumers == {"c1"}
Threads == Producers \cup Consumers
\* The threads that call wait_until on the sequencer under test.
Waiters == {"w1", "w2"}

VARIABLES
    \* StaticQueue
    push_ticket, pop_ticket, slots,
    \* per-thread position and locals inside shared_push / shared_pop
    th,
    \* observation of the queue: what was issued, written, read and returned
    issued_push, issued_pop, deposit, taken, push_log, pop_log,
    \* the reference FIFO run beside the queue, and the last call's two returns
    ref, last,
    \* Wheel: elapsed and levels; kind is the bucket type S of the instance
    elapsed, levels, kind,
    \* TRUE once a call of the wheel has panicked (the process aborts)
    aborted,
    \* observation of the wheel: the number of schedule calls made, the items
    \* schedule accepted, every call of the sink in order, and the last call
    next_id, accepted, sunk, wlast,
    \* A Sequencer on its own: which implementation it is, its counter and
    \* mutex, and the position of every thread inside wait_until
    variant, sequencer, waiter,
    \* the threads the run has spawned on the queue
    running,
    \* which container has been destroyed, and the payloads its destructor
    \* dropped, in order
    destroyed, dropped

qvars == <<push_ticket, pop_ticket, slots, th,
           issued_push, issued_pop, deposit, taken, push_log, pop_log>>
wvars == <<elapsed, levels, kind, aborted, next_id, accepted, sunk, wlast>>
svars == <<variant, sequencer, waiter>>
dvars == <<destroyed, dropped>>

(***************************************************************************)
(* Queue: src/src/queue/nonblocking.rs and src/src/slot.rs                 *)
(***************************************************************************)
NoRet == [kind |-> "none", val |-> 0]
IdleThread == [pc |-> "idle", item |-> 0, cur_push |-> 0, cur_pop |-> 0,
               ticket |-> 0]

\* Slot::default, reached through the zeroed StaticQueue::default.
SlotDefault == [data |-> 0, occupied |-> FALSE, seq |-> 0]

QInit ==
    /\ push_ticket = 0
    /\ pop_ticket = 0
    /\ slots = [i \in 0..(N - 1) |-> SlotDefault]
    /\ th = [t \in Threads |-> IdleThread]
    /\ issued_push = <<>>
    /\ issued_pop = <<>>
    /\ deposit = {}
    /\ taken = {}
    /\ push_log = <<>>
    /\ pop_log = <<>>

\* let offset = ticket % N; let seq = ticket / N;
Offset(ticket) == ticket % N
Generation(ticket) == ticket \div N

\* Mutant: the size is taken unsigned, so a push ticket read before a newer
\* pop ticket wraps to a huge size.
QueueFullUnsigned(cur_push, cur_pop) ==
    IF cur_push < cur_pop THEN TRUE ELSE cur_push - cur_pop >= N
\* Mutant: the queue reports full one item early.
QueueFullEarly(cur_push, cur_pop) == cur_push - cur_pop >= N - 1
\* if size >= N as isize { break None }
QueueFull(cur_push, cur_pop) == cur_push - cur_pop >= N
\* Mutant: a pop ticket is handed out although the queue is empty.
QueueEmptyLate(cur_pop, cur_push) == cur_pop > cur_push
\* Mutant: the queue is never found empty.
QueueEmptyNever(cur_pop, cur_push) == FALSE
\* if cur_pop >= cur_push { return None }
QueueEmpty(cur_pop, cur_push) == cur_pop >= cur_push

\* The sequence values Slot::push and Slot::pop wait for and store.
PushTurn(seq) == seq * 2
\* Mutant: the producer bumps the counter past the consumer's turn.
PushDonePast(seq) == seq * 2 + 2
PushDone(seq) == seq * 2 + 1
\* Mutant: the consumer takes the producer's turn value for its own.
PopTurnEarly(seq) == seq * 2
PopTurn(seq) == seq * 2 + 1
\* Mutant: the consumer leaves the counter at its own turn value.
PopDoneStuck(seq) == seq * 2 + 1
PopDone(seq) == seq * 2 + 2

\* Mutant: the wait returns at once, whatever the counter holds.
SpinNoWait(cur, sequence) == TRUE
\* SpinSequencer::wait_until leaves its loop on a load that equals the target.
SpinReached(cur, sequence) == cur = sequence

\* The reference bounded FIFO of capacity N the queue is compared with.
RefPushRet(q, x) == IF Len(q) < N THEN [kind |-> "ok", val |-> 0]
                    ELSE [kind |-> "full", val |-> x]
RefPushNext(q, x) == IF Len(q) < N THEN Append(q, x) ELSE q
RefPopRet(q) == IF q = <<>> THEN [kind |-> "empty", val |-> 0]
                ELSE [kind |-> "some", val |-> Head(q)]
RefPopNext(q) == IF q = <<>> THEN q ELSE Tail(q)

\* The queue's observation variables a step leaves alone.
HistUnchanged == UNCHANGED <<issued_push, issued_pop, deposit, taken,
                             push_log, pop_log>>

\* ---- shared_push -------------------------------------------------------
\* Entry of shared_push(t): the caller hands over the item.
shared_push_call(t, x) ==
    /\ th[t].pc = "idle"
    /\ th' = [th EXCEPT ![t] = [IdleThread EXCEPT !.pc = "push_load_push",
                                    !.item = x]]
    /\ UNCHANGED <<push_ticket, pop_ticket, slots>>
    /\ HistUnchanged

\* let cur_push = push_ticket.load(), at the head of the loop.
obtain_push_ticket_load_push(t) ==
    /\ th[t].pc = "push_load_push"
    /\ th' = [th EXCEPT ![t].pc = "push_load_pop", ![t].cur_push = push_ticket]
    /\ UNCHANGED <<push_ticket, pop_ticket, slots>>
    /\ HistUnchanged

\* Mutant: the ticket is taken before the queue is found full.
obtain_push_ticket_load_pop_taking(t) ==
    /\ th[t].pc = "push_load_pop"
    /\ IF QueueFull(th[t].cur_push, pop_ticket)
       THEN /\ th' = [th EXCEPT ![t] = IdleThread]
            /\ push_ticket' = push_ticket + 1
       ELSE /\ th' = [th EXCEPT ![t].pc = "push_cas"]
            /\ UNCHANGED push_ticket
    /\ UNCHANGED <<pop_ticket, slots>>
    /\ HistUnchanged

\* let cur_pop = pop_ticket.load(); a full queue returns Err(t) at once.
obtain_push_ticket_load_pop(t) ==
    /\ th[t].pc = "push_load_pop"
    /\ IF QueueFull(th[t].cur_push, pop_ticket)
       THEN th' = [th EXCEPT ![t] = IdleThread]
       ELSE th' = [th EXCEPT ![t].pc = "push_cas"]
    /\ UNCHANGED <<push_ticket, pop_ticket, slots>>
    /\ HistUnchanged

\* Mutant: the ticket is stored without comparing.
PushCasBlind(t) == TRUE
\* push_ticket.compare_and_swap(cur_push, cur_push + 1) == cur_push
PushCasWins(t) == push_ticket = th[t].cur_push

obtain_push_ticket_cas(t) ==
    /\ th[t].pc = "push_cas"
    /\ IF PushCasWins(t)
       THEN /\ push_ticket' = th[t].cur_push + 1
            /\ th' = [th EXCEPT ![t].pc = "push_wait", ![t].cur_push = 0,
                                ![t].ticket = th[t].cur_push]
            /\ issued_push' = Append(issued_push, th[t].cur_push)
       ELSE /\ th' = [th EXCEPT ![t].pc = "push_load_push", ![t].cur_push = 0]
            /\ UNCHANGED <<push_ticket, issued_push>>
    /\ UNCHANGED <<pop_ticket, slots>>
    /\ UNCHANGED <<issued_pop, deposit, taken, push_log, pop_log>>

\* Slot::push: self.seq.wait_until(seq * 2, None)
Slot_push_wait(t) ==
    /\ th[t].pc = "push_wait"
    /\ SpinReached(slots[Offset(th[t].ticket)].seq,
                   PushTurn(Generation(th[t].ticket)))
    /\ th' = [th EXCEPT ![t].pc = "push_occupy"]
    /\ UNCHANGED <<push_ticket, pop_ticket, slots>>
    /\ HistUnchanged

\* while self.occupied.compare_and_swap(false, true) { }
Slot_push_occupy(t) ==
    /\ th[t].pc = "push_occupy"
    /\ ~slots[Offset(th[t].ticket)].occupied
    /\ slots' = [slots EXCEPT ![Offset(th[t].ticket)].occupied = TRUE]
    /\ th' = [th EXCEPT ![t].pc = "push_write"]
    /\ UNCHANGED <<push_ticket, pop_ticket>>
    /\ HistUnchanged

\* core::ptr::write(self.data.get(), MaybeUninit::new(data))
Slot_push_write(t) ==
    /\ th[t].pc = "push_write"
    /\ slots' = [slots EXCEPT ![Offset(th[t].ticket)].data = th[t].item]
    /\ th' = [th EXCEPT ![t].pc = "push_update"]
    /\ deposit' = deposit \cup {<<th[t].ticket, th[t].item>>}
    /\ UNCHANGED <<push_ticket, pop_ticket>>
    /\ UNCHANGED <<issued_push, issued_pop, taken, push_log, pop_log>>

\* self.seq.update_next(seq * 2 + 1); shared_push returns Ok(()).
Slot_push_update(t) ==
    /\ th[t].pc = "push_update"
    /\ slots' = [slots EXCEPT ![Offset(th[t].ticket)].seq =
                                  PushDone(Generation(th[t].ticket))]
    /\ th' = [th EXCEPT ![t] = IdleThread]
    /\ push_log' = Append(push_log, th[t].item)
    /\ UNCHANGED <<push_ticket, pop_ticket>>
    /\ UNCHANGED <<issued_push, issued_pop, deposit, taken, pop_log>>

\* ---- shared_pop --------------------------------------------------------
\* Entry of shared_pop.
shared_pop_call(t) ==
    /\ th[t].pc = "idle"
    /\ th' = [th EXCEPT ![t] = [IdleThread EXCEPT !.pc = "pop_load_pop"]]
    /\ UNCHANGED <<push_ticket, pop_ticket, slots>>
    /\ HistUnchanged

\* let cur_pop = pop_ticket.load(), at the head of the loop.
obtain_pop_ticket_load_pop(t) ==
    /\ th[t].pc = "pop_load_pop"
    /\ th' = [th EXCEPT ![t].pc = "pop_load_push", ![t].cur_pop = pop_ticket]
    /\ UNCHANGED <<push_ticket, pop_ticket, slots>>
    /\ HistUnchanged

\* let cur_push = push_ticket.load(); an empty queue returns None at once.
obtain_pop_ticket_load_push(t) ==
    /\ th[t].pc = "pop_load_push"
    /\ IF QueueEmpty(th[t].cur_pop, push_ticket)
       THEN th' = [th EXCEPT ![t] = IdleThread]
       ELSE th' = [th EXCEPT ![t].pc = "pop_cas"]
    /\ UNCHANGED <<push_ticket, pop_ticket, slots>>
    /\ HistUnchanged

\* pop_ticket.compare_and_swap(cur_pop, cur_pop + 1) == cur_pop
PopCasWins(t) == pop_ticket = th[t].cur_pop

obtain_pop_ticket_cas(t) ==
    /\ th[t].pc = "pop_cas"
    /\ IF PopCasWins(t)
       THEN /\ pop_ticket' = th[t].cur_pop + 1
            /\ th' = [th EXCEPT ![t].pc = "pop_wait", ![t].cur_pop = 0,
                                ![t].ticket = th[t].cur_pop]
            /\ issued_pop' = Append(issued_pop, th[t].cur_pop)
       ELSE /\ th' = [th EXCEPT ![t].pc = "pop_load_pop", ![t].cur_pop = 0]
            /\ UNCHANGED <<pop_ticket, issued_pop>>
    /\ UNCHANGED <<push_ticket, slots>>
    /\ UNCHANGED <<issued_push, deposit, taken, push_log, pop_log>>

\* Slot::pop: self.seq.wait_until(seq * 2 + 1, None)
Slot_pop_wait(t) ==
    /\ th[t].pc = "pop_wait"
    /\ SpinReached(slots[Offset(th[t].ticket)].seq,
                   PopTurn(Generation(th[t].ticket)))
    /\ th' = [th EXCEPT ![t].pc = "pop_read"]
    /\ UNCHANGED <<push_ticket, pop_ticket, slots>>
    /\ HistUnchanged

\* let result = core::ptr::read(self.data.get()).assume_init()
Slot_pop_read(t) ==
    /\ th[t].pc = "pop_read"
    /\ th' = [th EXCEPT ![t].pc = "pop_release",
                        ![t].item = slots[Offset(th[t].ticket)].data]
    /\ taken' = taken \cup {<<th[t].ticket, slots[Offset(th[t].ticket)].data>>}
    /\ UNCHANGED <<push_ticket, pop_ticket, slots>>
    /\ UNCHANGED <<issued_push, issued_pop, deposit, push_log, pop_log>>

\* Mutant: the consumer leaves the occupancy flag set.
Slot_pop_release_skipped(t) ==
    /\ th[t].pc = "pop_release"
    /\ th' = [th EXCEPT ![t].pc = "pop_update"]
    /\ UNCHANGED <<push_ticket, pop_ticket, slots>>
    /\ HistUnchanged

\* self.occupied.store(false)
Slot_pop_release(t) ==
    /\ th[t].pc = "pop_release"
    /\ slots' = [slots EXCEPT ![Offset(th[t].ticket)].occupied = FALSE]
    /\ th' = [th EXCEPT ![t].pc = "pop_update"]
    /\ UNCHANGED <<push_ticket, pop_ticket>>
    /\ HistUnchanged

\* self.seq.update_next(seq * 2 + 2); shared_pop returns Some(result).
Slot_pop_update(t) ==
    /\ th[t].pc = "pop_update"
    /\ slots' = [slots EXCEPT ![Offset(th[t].ticket)].seq =
                                  PopDone(Generation(th[t].ticket))]
    /\ th' = [th EXCEPT ![t] = IdleThread]
    /\ pop_log' = Append(pop_log, th[t].item)
    /\ UNCHANGED <<push_ticket, pop_ticket>>
    /\ UNCHANGED <<issued_push, issued_pop, deposit, taken, push_log>>

\* The payload of a thread's next push: every producer pushes its own
\* ascending stream and offers a refused value again (test::spsc, test::mpmc).
\* 0 is the zeroed cell of a fresh queue and is never pushed.
ItemBase(t) == IF t = "p1" THEN 0 ELSE 100
Accepted(t) == Cardinality({i \in DOMAIN push_log :
                   push_log[i] > ItemBase(t) /\ push_log[i] <= ItemBase(t) + 99})
NextItem(t) == ItemBase(t) + Accepted(t) + 1

\* What the call of thread t returns in the step that takes t back to idle.
Returns(t) == th[t].pc # "idle" /\ th'[t].pc = "idle"
RetOf(t) ==
    CASE th[t].pc = "push_load_pop" -> [kind |-> "full", val |-> th[t].item]
      [] th[t].pc = "push_update" -> [kind |-> "ok", val |-> 0]
      [] th[t].pc = "pop_load_push" -> [kind |-> "empty", val |-> 0]
      [] th[t].pc = "pop_update" -> [kind |-> "some", val |-> th[t].item]
IsPush(t) == th[t].pc \in {"push_load_pop", "push_update"}

\* The reference FIFO takes the same call when a call of the queue returns.
NoCall == [op |-> "none", arg |-> 0, ret |-> NoRet, exp |-> NoRet]
RefObserve(t) ==
    IF Returns(t)
    THEN IF IsPush(t)
         THEN /\ last' = [op |-> "push", arg |-> th[t].item, ret |-> RetOf(t),
                          exp |-> RefPushRet(ref, th[t].item)]
              /\ ref' = RefPushNext(ref, th[t].item)
         ELSE /\ last' = [op |-> "pop", arg |-> 0, ret |-> RetOf(t),
                          exp |-> RefPopRet(ref)]
              /\ ref' = RefPopNext(ref)
    ELSE UNCHANGED <<ref, last>>
\* Only a thread the run has spawned takes steps.
Observe(observed, t) ==
    /\ t \in running
    /\ IF observed THEN RefObserve(t) ELSE UNCHANGED <<ref, last>>
    /\ UNCHANGED <<wvars, svars, running, dvars>>

(***************************************************************************)
(* Timing wheel: src/src/timing_wheel/hierarchical.rs                      *)
(***************************************************************************)
\* Arithmetic on machine words.
W == 2 ^ CUTOFF
Bit(b, i) == (b \div (2 ^ i)) % 2
\* Mutant: the bit of a bucket that received an item is not set.
LeaveBit(b, at) == b
\* self.bitset |= 1 << at
SetBit(b, at) == IF Bit(b, at) = 1 THEN b ELSE b + 2 ^ at
\* Mutant: the bit of an emptied bucket stays set.
KeepBit(b, at) == b
\* self.bitset &= !(1 << at)
ClearBit(b, at) == IF Bit(b, at) = 1 THEN b - 2 ^ at ELSE b

RECURSIVE BitLen(_)
BitLen(x) == IF x = 0 THEN 0 ELSE 1 + BitLen(x \div 2)

\* Mutant: the highest set bit is taken for the lowest.
HighestBit(b) == BitLen(b) - 1
RECURSIVE TrailingZeros(_)
TrailingZeros(b) == IF b % 2 = 1 THEN 0 ELSE 1 + TrailingZeros(b \div 2)

LeadingZeros(x) == BITCOUNT_TOT - BitLen(x)

RECURSIVE Xor(_, _)
Xor(a, b) == IF a = 0 /\ b = 0 THEN 0
             ELSE (IF a % 2 = b % 2 THEN 0 ELSE 1) + 2 * Xor(a \div 2, b \div 2)

\* An item of a bucket is the pair (payload, tick).
NoItem == <<0, 0>>
None == [some |-> FALSE, item |-> NoItem]
Some(i) == [some |-> TRUE, item |-> i]

\* ---- SlotLike: BoundedSlot and VecDeque --------------------------------
\* A bucket is the sequence of its items: storage[0..size) of a BoundedSlot,
\* front to back of a VecDeque.
SlotEmpty == <<>>
\* push returns Ok(()) or Err(i): err is the item handed back.
BoundedSlot_push(s, i) == IF Len(s) = M THEN [ok |-> FALSE, slot |-> s, err |-> i]
                          ELSE [ok |-> TRUE, slot |-> Append(s, i), err |-> NoItem]
VecDeque_push(s, i) == [ok |-> TRUE, slot |-> <<i>> \o s, err |-> NoItem]
SlotLike_push(k, s, i) == IF k = "bounded" THEN BoundedSlot_push(s, i)
                          ELSE VecDeque_push(s, i)
\* Both pop the last element: storage[size - 1], and pop_back.
SlotLike_pop(s) == IF Len(s) = 0 THEN [popped |-> None, slot |-> s]
                   ELSE [popped |-> Some(s[Len(s)]),
                         slot |-> SubSeq(s, 1, Len(s) - 1)]
SlotLike_size(s) == Len(s)

\* ---- Level -------------------------------------------------------------
LevelDefault == [bitset |-> 0, slots |-> [i \in 0..(W - 1) |-> SlotEmpty]]

push_at(k, level, at, i) ==
    LET ret == SlotLike_push(k, level.slots[at], i) IN
    [ok |-> ret.ok, err |-> ret.err,
     level |-> [bitset |-> IF ret.ok THEN SetBit(level.bitset, at)
                           ELSE level.bitset,
                slots |-> [level.slots EXCEPT ![at] = ret.slot]]]

pop_at(level, at) ==
    LET ret == SlotLike_pop(level.slots[at]) IN
    [popped |-> ret.popped,
     level |-> [bitset |-> IF SlotLike_size(ret.slot) = 0
                           THEN ClearBit(level.bitset, at)
                           ELSE level.bitset,
                slots |-> [level.slots EXCEPT ![at] = ret.slot]]]

\* Mutant: the last occupied bucket is reported instead of the first.
next_event_last(level, from) ==
    IF level.bitset = 0 THEN [kind |-> "none", val |-> 0]
    ELSE [kind |-> "some", val |-> HighestBit(level.bitset)]
\* assert!(zeros >= from) panics when it fails.
next_event(level, from) ==
    IF level.bitset = 0 THEN [kind |-> "none", val |-> 0]
    ELSE IF TrailingZeros(level.bitset) >= from
         THEN [kind |-> "some", val |-> TrailingZeros(level.bitset)]
         ELSE [kind |-> "panic", val |-> 0]

\* Mutant: the bucket is taken out and its bit is left set.
replace_slot_bit_kept(level, idx, slot) ==
    [old |-> level.slots[idx],
     level |-> [bitset |-> level.bitset,
                slots |-> [level.slots EXCEPT ![idx] = slot]]]
replace_slot(level, idx, slot) ==
    [old |-> level.slots[idx],
     level |-> [bitset |-> ClearBit(level.bitset, idx),
                slots |-> [level.slots EXCEPT ![idx] = slot]]]

\* LevelDrain::next, run until it yields None: the items it yielded, in
\* order, and the level it leaves.
RECURSIVE drain_until(_, _)
drain_until(level, until) ==
    IF level.bitset = 0 THEN [out |-> <<>>, level |-> level]
    ELSE LET idx == TrailingZeros(level.bitset) IN
         IF idx >= until THEN [out |-> <<>>, level |-> level]
         ELSE LET p == pop_at(level, idx) IN
              IF ~p.popped.some THEN [out |-> <<>>, level |-> p.level]
              ELSE LET rest == drain_until(p.level, until) IN
                   [out |-> <<p.popped.item>> \o rest.out, level |-> rest.level]

drain(level) == drain_until(level, W)

\* ---- Wheel -------------------------------------------------------------
\* Mutant: the position of the first differing bit is taken one too high.
FirstOneAbove(same_leading) == BITCOUNT_TOT - same_leading
\* let first_one = BITCOUNT_TOT - same_leading as usize - 1
FirstOne(same_leading) == BITCOUNT_TOT - same_leading - 1

\* let first_same_wheel = first_one / CUTOFF, in fast_forward
TopLevel(e, moment) == FirstOne(LeadingZeros(Xor(e, moment))) \div CUTOFF

\* assert!(tick < (1 << (CUTOFF * LEVEL)))
TickInRange(tick) == tick < 2 ^ (CUTOFF * LEVEL)

\* Mutant: no tick is taken to lie in the past.
InPastNever(e, tick) == FALSE
\* Mutant: the current tick is taken to lie in the past as well.
InPastOrNow(e, tick) == tick <= e
\* if tick < self.elapsed { return None }
InPast(e, tick) == tick < e

get_pos(e, tick) ==
    IF InPast(e, tick) THEN [some |-> FALSE, wheel |-> 0, offset |-> 0]
    ELSE LET same_leading == IF e = tick THEN 63 ELSE LeadingZeros(Xor(e, tick))
             wheel == FirstOne(same_leading) \div CUTOFF
             offset == (tick \div (2 ^ (wheel * CUTOFF))) % W
         IN [some |-> TRUE, wheel |-> wheel, offset |-> offset]

\* schedule on the wheel (e, lv) with buckets of kind k: Ok(()), or Err(i)
\* with err the payload handed back (.map_err(|err| err.0)).
schedule(k, e, lv, tick, i) ==
    LET pos == get_pos(e, tick) IN
    IF ~pos.some THEN [ok |-> FALSE, levels |-> lv, err |-> i]
    ELSE LET ret == push_at(k, lv[pos.wheel], pos.offset, <<i, tick>>) IN
         [ok |-> ret.ok, levels |-> [lv EXCEPT ![pos.wheel] = ret.level],
          err |-> ret.err[1]]

\* Mutant: the levels below the top level are left as they are.
DrainNothing(lv, i, first_same_wheel) == [out |-> <<>>, levels |-> lv]
\* for i in 0..first_same_wheel { for item in self.levels[i].drain() { f(..) } }
RECURSIVE DrainBelow(_, _, _)
DrainBelow(lv, i, first_same_wheel) ==
    IF i >= first_same_wheel THEN [out |-> <<>>, levels |-> lv]
    ELSE LET d == drain(lv[i])
             rest == DrainBelow([lv EXCEPT ![i] = d.level], i + 1, first_same_wheel)
         IN [out |-> d.out \o rest.out, levels |-> rest.levels]

\* Mutant: an item due exactly at the target is scheduled again.
DueStrict(ts, moment) == ts < moment
\* if ts <= moment { f(item, ts) } else { self.schedule(ts, item) }
Due(ts, moment) == ts <= moment

\* while let Some((item, ts)) = cascading.pop() { .. }, with elapsed = moment.
RECURSIVE Cascade(_, _, _, _)
Cascade(k, lv, cascading, moment) ==
    LET p == SlotLike_pop(cascading) IN
    IF ~p.popped.some THEN [out |-> <<>>, levels |-> lv, lost |-> {}]
    ELSE LET item == p.popped.item[1]
             ts == p.popped.item[2]
         IN IF Due(ts, moment)
            THEN LET rest == Cascade(k, lv, p.slot, moment) IN
                 [out |-> <<p.popped.item>> \o rest.out, levels |-> rest.levels,
                  lost |-> rest.lost]
            ELSE LET r == schedule(k, moment, lv, ts, item)
                     rest == Cascade(k, r.levels, p.slot, moment)
                 IN [out |-> rest.out, levels |-> rest.levels,
                     lost |-> IF r.ok THEN rest.lost ELSE rest.lost \cup {item}]

\* assert!(moment > self.elapsed)
FastForwardAllowed(e, moment) == moment > e

\* The body of fast_forward after its assertion: the sink calls in order, the
\* levels it leaves, and the payloads whose re-schedule was refused.
fast_forward(k, e, lv, moment) ==
    LET first_same_wheel == TopLevel(e, moment)
        below == DrainBelow(lv, 0, first_same_wheel)
        from_idx == (e \div (2 ^ (CUTOFF * first_same_wheel))) % W
        to_idx == (moment \div (2 ^ (CUTOFF * first_same_wheel))) % W
        skipped == IF to_idx # from_idx
                   THEN drain_until(below.levels[first_same_wheel], to_idx)
                   ELSE [out |-> <<>>, level |-> below.levels[first_same_wheel]]
        rep == replace_slot(skipped.level, to_idx, SlotEmpty)
        casc == Cascade(k, [below.levels EXCEPT ![first_same_wheel] = rep.level],
                        rep.old, moment)
    IN [out |-> below.out \o skipped.out \o casc.out,
        levels |-> casc.levels,
        lost |-> casc.lost]

RECURSIVE MinNextEventFrom(_, _, _)
MinNextEventFrom(lv, left, i) ==
    IF i >= LEVEL THEN [kind |-> "none", val |-> 0]
    ELSE LET tail == left % W
             left2 == left \div W
             ev == next_event(lv[i], tail)
         IN IF ev.kind = "panic" THEN ev
            ELSE IF ev.kind = "some"
                 THEN [kind |-> "some",
                       val |-> (left2 * W + ev.val) * 2 ^ (i * CUTOFF)]
                 ELSE MinNextEventFrom(lv, left2, i + 1)

min_next_event(e, lv) == MinNextEventFrom(lv, e, 0)

\* Wheel::new(0), with either bucket type.
\* The last call: whether it returned (ok for schedule, no panic for
\* fast_forward), how many sink calls preceded it, whether it was a
\* fast_forward to the current elapsed, where the items lay that were
\* below the top level of a fast_forward when it started, whether it was a
\* schedule of a tick before elapsed, and the payload a schedule handed back.
NoWheelCall == [op |-> "none", ok |-> TRUE, mark |-> 0, zero |-> FALSE,
                below |-> {}, past |-> FALSE, err |-> 0]
\* The triples <<payload, level, bucket>> of the items stored at level l.
PayloadsAt(lv, l) ==
    {<<lv[l].slots[b][j][1], l, b>> : <<b, j>> \in
        {<<b, j>> \in (0..(W - 1)) \X (1..MaxItems) : j <= Len(lv[l].slots[b])}}
BelowTop(lv, e, moment) ==
    UNION {PayloadsAt(lv, l) : l \in 0..(TopLevel(e, moment) - 1)}
BucketKinds == {"bounded", "vecdeque"}
WInit ==
    /\ elapsed = 0
    /\ levels = [l \in 0..(LEVEL - 1) |-> LevelDefault]
    /\ kind \in BucketKinds
    /\ aborted = FALSE
    /\ next_id = 1
    /\ accepted = {}
    /\ sunk = <<>>
    /\ wlast = NoWheelCall

\* The queue beside the wheel stays as constructed.
QueueUntouched == UNCHANGED <<qvars, ref, last, svars, running, dvars>>

\* wheel.schedule(tick, next_id)
Schedule(tick) ==
    /\ ~aborted
    /\ next_id <= MaxItems
    /\ TickInRange(tick)
    /\ \E r \in {schedule(kind, elapsed, levels, tick, next_id)} :
       /\ levels' = r.levels
       /\ accepted' = IF r.ok THEN accepted \cup {<<next_id, tick>>} ELSE accepted
       /\ wlast' = [op |-> "schedule", ok |-> r.ok, mark |-> Len(sunk),
                    zero |-> FALSE, below |-> {}, past |-> (tick < elapsed),
                    err |-> r.err]
    /\ next_id' = next_id + 1
    /\ UNCHANGED <<elapsed, kind, aborted, sunk>>
    /\ QueueUntouched

\* wheel.fast_forward(moment, sink), where sink appends its arguments to sunk.
FastForward(moment) ==
    /\ ~aborted
    /\ TickInRange(moment)
    /\ IF FastForwardAllowed(elapsed, moment)
       THEN \E r \in {fast_forward(kind, elapsed, levels, moment)} :
            /\ elapsed' = moment
            /\ levels' = r.levels
            /\ sunk' = sunk \o r.out
            /\ wlast' = [op |-> "fast_forward", ok |-> TRUE, mark |-> Len(sunk),
                         zero |-> FALSE,
                         below |-> BelowTop(levels, elapsed, moment),
                         past |-> FALSE, err |-> 0]
            /\ UNCHANGED aborted
       ELSE /\ aborted' = TRUE
            /\ wlast' = [op |-> "fast_forward", ok |-> FALSE, mark |-> Len(sunk),
                         zero |-> (moment = elapsed), below |-> {},
                         past |-> FALSE, err |-> 0]
            /\ UNCHANGED <<elapsed, levels, sunk>>
    /\ UNCHANGED <<kind, next_id, accepted>>
    /\ QueueUntouched

Ticks == 0..MaxTick

NextWheel ==
    \/ \E tick \in Ticks : Schedule(tick)
    \/ \E moment \in Ticks : moment >= elapsed /\ FastForward(moment)

(***************************************************************************)
(* Sequencers: src/src/queue/sequencer.rs                                  *)
(***************************************************************************)
Variants == {"spin", "condvar"}
IdleWaiter == [pc |-> "idle", sequence |-> 0, timeout |-> FALSE,
               ret |-> "none", seen |-> 0]

\* SpinSequencer::default / CondvarSequencer::default
SInit ==
    /\ variant \in Variants
    /\ sequencer = [seq |-> 0, mutex |-> "free"]
    /\ waiter = [t \in Waiters |-> IdleWaiter]

OthersUntouched == UNCHANGED <<qvars, ref, last, wvars, running, dvars>>

\* A return of wait_until: seen is the counter at the moment of the return.
WaitReturn(t, r) == [IdleWaiter EXCEPT !.sequence = waiter[t].sequence,
                                       !.timeout = waiter[t].timeout,
                                       !.ret = r, !.seen = sequencer.seq]

\* Entry of wait_until(sequence, timeout).  The spin variant answers a
\* timeout with unimplemented!().
wait_until_call(t, sequence, timeout) ==
    /\ waiter[t].pc = "idle"
    /\ waiter' = [waiter EXCEPT ![t] =
          IF variant = "spin"
          THEN IF timeout
               THEN [IdleWaiter EXCEPT !.sequence = sequence, !.timeout = timeout,
                                       !.ret = "panic", !.seen = sequencer.seq]
               ELSE [IdleWaiter EXCEPT !.pc = "spin_load", !.sequence = sequence]
          ELSE [IdleWaiter EXCEPT !.pc = "cv_lock", !.sequence = sequence,
                                  !.timeout = timeout]]
    /\ UNCHANGED <<variant, sequencer>>
    /\ OthersUntouched

\* loop { if self.seq.load(Acquire) == sequence { break Ok(()) } }
SpinSequencer_wait_until(t) ==
    /\ waiter[t].pc = "spin_load"
    /\ SpinReached(sequencer.seq, waiter[t].sequence)
    /\ waiter' = [waiter EXCEPT ![t] = WaitReturn(t, "ok")]
    /\ UNCHANGED <<variant, sequencer>>
    /\ OthersUntouched

\* let cur = self.seq.lock().unwrap()
CondvarSequencer_lock(t) ==
    /\ waiter[t].pc = "cv_lock"
    /\ sequencer.mutex = "free"
    /\ sequencer' = [sequencer EXCEPT !.mutex = t]
    /\ waiter' = [waiter EXCEPT ![t].pc = "cv_test"]
    /\ UNCHANGED variant
    /\ OthersUntouched

\* if *cur == sequence { return Ok(()) }
CondvarSequencer_test(t) ==
    /\ waiter[t].pc = "cv_test"
    /\ IF sequencer.seq = waiter[t].sequence
       THEN /\ waiter' = [waiter EXCEPT ![t] = WaitReturn(t, "ok")]
            /\ sequencer' = [sequencer EXCEPT !.mutex = "free"]
       ELSE /\ waiter' = [waiter EXCEPT ![t].pc = "cv_wait_while"]
            /\ UNCHANGED sequencer
    /\ UNCHANGED variant
    /\ OthersUntouched

\* let cond = |pending: &mut usize| *pending == sequence
WaitCondition(pending, sequence) == pending = sequence

\* One round of Condvar::wait_while / wait_timeout_while(cur, cond): they
\* block while cond holds and return as soon as it does not.  A parked thread
\* comes back on a notification, on its own or on its timeout, and takes the
\* mutex again.
CondvarSequencer_wait_while(t) ==
    /\ waiter[t].pc \in {"cv_wait_while", "cv_parked"}
    /\ waiter[t].pc = "cv_parked" => sequencer.mutex = "free"
    /\ \E timed_out \in IF waiter[t].pc = "cv_parked" /\ waiter[t].timeout
                        THEN {TRUE, FALSE} ELSE {FALSE} :
          IF ~WaitCondition(sequencer.seq, waiter[t].sequence)
          THEN /\ waiter' = [waiter EXCEPT ![t] = WaitReturn(t, "ok")]
               /\ sequencer' = [sequencer EXCEPT !.mutex = "free"]
          ELSE IF timed_out
               THEN /\ waiter' = [waiter EXCEPT ![t] = WaitReturn(t, "timeout")]
                    /\ sequencer' = [sequencer EXCEPT !.mutex = "free"]
               ELSE /\ waiter' = [waiter EXCEPT ![t].pc = "cv_parked"]
                    /\ sequencer' = [sequencer EXCEPT !.mutex = "free"]
    /\ UNCHANGED variant
    /\ OthersUntouched

\* SpinSequencer: self.seq.store(sequence).  CondvarSequencer:
\* *self.seq.lock().unwrap() = sequence; self.condvar.notify_all().
update_next(sequence) ==
    /\ variant = "condvar" => sequencer.mutex = "free"
    /\ sequencer' = [sequencer EXCEPT !.seq = sequence]
    /\ UNCHANGED <<variant, waiter>>
    /\ OthersUntouched

NextSequencer ==
    \/ \E t \in Waiters, sequence \in 0..MaxSeq, timeout \in BOOLEAN :
          wait_until_call(t, sequence, timeout)
    \/ \E t \in Waiters : SpinSequencer_wait_until(t)
    \/ \E t \in Waiters : CondvarSequencer_lock(t)
    \/ \E t \in Waiters : CondvarSequencer_test(t)
    \/ \E t \in Waiters : CondvarSequencer_wait_while(t)
    \/ \E sequence \in 0..MaxSeq : update_next(sequence)

(***************************************************************************)
(* Destruction.  No type of the crate implements Drop, so a container is   *)
(* destroyed by the drop glue of its fields, in declaration order and, in  *)
(* an array, by ascending index.                                           *)
(***************************************************************************)
RECURSIVE Concat(_, _, _)
Concat(f, i, n) == IF i >= n THEN <<>> ELSE f[i] \o Concat(f, i + 1, n)

\* Slot { data: UnsafeCell<MaybeUninit<T>>, .. }: MaybeUninit<T> has no drop
\* glue, whatever the cell holds.
Slot_drop(slot) == <<>>
\* slots: [Slot<T, S>; N]
StaticQueue_drop(sl) == Concat([i \in 0..(N - 1) |-> Slot_drop(sl[i])], 0, N)

\* BoundedSlot { storage: [MaybeUninit<T>; N], size }: no drop glue either.
BoundedSlot_drop(s) == <<>>
\* std::collections::VecDeque<T> drops its elements, front to back.
VecDeque_drop(s) == [j \in 1..Len(s) |-> s[j][1]]
SlotLike_drop(k, s) == IF k = "bounded" THEN BoundedSlot_drop(s)
                       ELSE VecDeque_drop(s)
\* Level { bitset, slots: [S; N] }
Level_drop(k, level) ==
    Concat([b \in 0..(W - 1) |-> SlotLike_drop(k, level.slots[b])], 0, W)
\* Wheel { elapsed, levels: [WheelLevel<S, CUTOFF>; LEVEL] }
Wheel_drop(k, lv) ==
    Concat([l \in 0..(LEVEL - 1) |-> Level_drop(k, lv[l])], 0, LEVEL)

\* The queue goes out of scope once its threads are joined, none of them
\* inside a call.
drop_queue ==
    /\ destroyed = "none"
    /\ running # {}
    /\ \A t \in running : th[t].pc = "idle"
    /\ destroyed' = "queue"
    /\ dropped' = StaticQueue_drop(slots)
    /\ running' = {}
    /\ UNCHANGED <<qvars, ref, last, wvars, svars>>

\* The wheel goes out of scope between two of its calls.
drop_wheel ==
    /\ destroyed = "none"
    /\ running = {}
    /\ destroyed' = "wheel"
    /\ dropped' = Wheel_drop(kind, levels)
    /\ UNCHANGED <<qvars, ref, last, wvars, svars, running>>

\* The run owns a live wheel and no queue thread.
WheelOwned == destroyed = "none" /\ running = {}

vars == <<qvars, ref, last, wvars, svars, running, dvars>>

\* No container has been destroyed.
DInit ==
    /\ destroyed = "none"
    /\ dropped = <<>>

\* A queue, and a wheel beside it that no queue step touches.
Init ==
    /\ QInit
    /\ ref = <<>>
    /\ last = NoCall
    /\ WInit
    /\ kind = "bounded"
    /\ SInit
    /\ variant = "spin"
    /\ running = Threads
    /\ DInit

\* A wheel of either bucket type, and a queue beside it that stays untouched.
InitWheel ==
    /\ QInit
    /\ ref = <<>>
    /\ last = NoCall
    /\ WInit
    /\ SInit
    /\ variant = "spin"
    /\ running = Threads
    /\ DInit

\* A sequencer of either implementation on its own.
InitSequencer ==
    /\ QInit
    /\ ref = <<>>
    /\ last = NoCall
    /\ WInit
    /\ kind = "bounded"
    /\ SInit
    /\ running = Threads
    /\ DInit

\* A thread starts a push only while fewer than cap tickets have been issued.
QueueStep(P, C, observed, cap) ==
    \/ \E t \in P : /\ push_ticket < cap
                     /\ shared_push_call(t, NextItem(t))
                     /\ Observe(observed, t)
    \/ \E t \in P : obtain_push_ticket_load_push(t) /\ Observe(observed, t)
    \/ \E t \in P : obtain_push_ticket_load_pop(t) /\ Observe(observed, t)
    \/ \E t \in P : obtain_push_ticket_cas(t) /\ Observe(observed, t)
    \/ \E t \in P : Slot_push_wait(t) /\ Observe(observed, t)
    \/ \E t \in P : Slot_push_occupy(t) /\ Observe(observed, t)
    \/ \E t \in P : Slot_push_write(t) /\ Observe(observed, t)
    \/ \E t \in P : Slot_push_update(t) /\ Observe(observed, t)
    \/ \E t \in C : shared_pop_call(t) /\ Observe(observed, t)
    \/ \E t \in C : obtain_pop_ticket_load_pop(t) /\ Observe(observed, t)
    \/ \E t \in C : obtain_pop_ticket_load_push(t) /\ Observe(observed, t)
    \/ \E t \in C : obtain_pop_ticket_cas(t) /\ Observe(observed, t)
    \/ \E t \in C : Slot_pop_wait(t) /\ Observe(observed, t)
    \/ \E t \in C : Slot_pop_read(t) /\ Observe(observed, t)
    \/ \E t \in C : Slot_pop_release(t) /\ Observe(observed, t)
    \/ \E t \in C : Slot_pop_update(t) /\ Observe(observed, t)

\* Any number of producers and consumers (test::mpmc).
Next == QueueStep(Producers, Consumers, FALSE, MaxTicket)

Spec == Init /\ [][Next]_vars

\* One producer thread and one consumer thread (test::spsc).
NextSpsc == QueueStep(SpscProducers, SpscConsumers, FALSE, MaxTicketFew)

SpecSpsc == Init /\ [][NextSpsc]_vars

\* One thread that both pushes and pops (test::basic), with the reference
\* FIFO beside it.
NextSeq == QueueStep(SeqThreads, SeqThreads, TRUE, MaxTicketFew)

SpecSeq == Init /\ [][NextSeq]_vars

\* A run of up to MaxLive threads, at least one producer and one consumer
\* among them, under a scheduler that starves no running thread: a thread
\* that can take a step eventually takes one.
InitFair ==
    /\ QInit
    /\ ref = <<>>
    /\ last = NoCall
    /\ WInit
    /\ kind = "bounded"
    /\ SInit
    /\ variant = "spin"
    /\ running \in {S \in SUBSET Threads : /\ S \cap Producers # {}
                                           /\ S \cap Consumers # {}
                                           /\ Cardinality(S) <= MaxLive}
    /\ DInit
ThreadNext(t) == QueueStep({t} \cap Producers, {t} \cap Consumers, FALSE, MaxTicket)
Fairness == \A t \in Threads : WF_vars(ThreadNext(t))

SpecFair == InitFair /\ [][Next]_vars /\ Fairness

\* A wheel driven by its single coordinator (test::basic, test::random).
SpecWheel == InitWheel /\ [][NextWheel]_vars

\* A run that uses one container and then destroys it: the queue from one
\* thread, or a wheel of either bucket type.
InitDrop ==
    /\ QInit
    /\ ref = <<>>
    /\ last = NoCall
    /\ WInit
    /\ SInit
    /\ variant = "spin"
    /\ running \in {{}, SeqThreads}
    /\ running # {} => kind = "bounded"
    /\ DInit

NextDrop ==
    \/ QueueStep(SeqThreads, SeqThreads, FALSE, MaxTicketFew)
    \/ \E tick \in Ticks : WheelOwned /\ Schedule(tick)
    \/ \E moment \in Ticks : WheelOwned /\ moment >= elapsed /\ FastForward(moment)
    \/ drop_queue
    \/ drop_wheel

SpecDrop == InitDrop /\ [][NextDrop]_vars

\* Threads waiting on one sequencer while its counter is updated.
SpecSequencer == InitSequencer /\ [][NextSequencer]_vars

(***************************************************************************)
(* Claims about the queue.                                                 *)
(***************************************************************************)
Quiescent == \A t \in Threads : th[t].pc = "idle"
Count(s, x) == Cardinality({i \in DOMAIN s : s[i] = x})
\* A slot holds a payload between the producer's update and the consumer's.
Resident == {i \in DOMAIN slots : slots[i].seq % 2 = 1}
ResidentCount(x) == Cardinality({i \in Resident : slots[i].data = x})
Seen == {push_log[i] : i \in DOMAIN push_log}
          \cup {pop_log[i] : i \in DOMAIN pop_log}
          \cup {slots[i].data : i \in Resident}

\* C1: whenever no push or pop is in flight, every payload was popped as often
\* as it was pushed, less the times it is still resident; the number resident
\* is push_ticket - pop_ticket; and no payload was returned twice.
C1_Conservation ==
    Quiescent =>
        /\ \A x \in Seen : Count(pop_log, x) + ResidentCount(x) = Count(push_log, x)
        /\ Cardinality(Resident) = push_ticket - pop_ticket
        /\ \A x \in Seen : Count(pop_log, x) <= 1

\* Both producers pushed, a consumer popped, and a payload is still resident.
C1_Witness ==
    /\ Quiescent
    /\ Accepted("p1") >= 1
    /\ Accepted("p2") >= 1
    /\ Len(pop_log) >= 1
    /\ Resident # {}

\* C2: push tickets and pop tickets are each issued as 0, 1, 2, ... without a
\* repeat or a gap, and the pop holding ticket t reads exactly the payload
\* the push holding ticket t wrote.
C2_TicketPairing ==
    /\ Len(issued_push) = push_ticket
    /\ \A k \in DOMAIN issued_push : issued_push[k] = k - 1
    /\ Len(issued_pop) = pop_ticket
    /\ \A k \in DOMAIN issued_pop : issued_pop[k] = k - 1
    /\ taken \subseteq deposit
    /\ \A d1, d2 \in deposit : d1[1] = d2[1] => d1 = d2
    /\ \A d \in deposit : d[1] \in 0..(push_ticket - 1)
    /\ \A d \in taken : d[1] \in 0..(pop_ticket - 1)

\* Both consumers hold a ticket while a pop of the second generation has read.
C2_Witness ==
    /\ \E d \in taken : d[1] >= N
    /\ Len(issued_pop) >= 2
    /\ \E t \in Producers : th[t].pc = "push_load_push" /\ th[t].item # 0

\* C3: with one producer and one consumer, the payloads popped are, in order,
\* the payloads pushed: always a prefix of them, and all of them once the
\* queue has been drained.
C3_SpscFifo ==
    /\ Len(pop_log) <= Len(push_log)
    /\ \A i \in DOMAIN pop_log : pop_log[i] = push_log[i]
    /\ (Quiescent /\ push_ticket = pop_ticket) => pop_log = push_log

\* The consumer has popped into the second lap of the ring while the
\* producer is still pushing.
C3_Witness ==
    /\ Len(pop_log) > N
    /\ th["p1"].pc = "push_write"
    /\ th["c1"].pc = "pop_wait"

\* C4: the pop ticket never overtakes the push ticket, and the push ticket is
\* never more than N ahead.
C4_TicketBound ==
    /\ 0 <= push_ticket - pop_ticket
    /\ push_ticket - pop_ticket <= N

\* A full ring after a pop, with a producer about to be refused and a
\* consumer about to take a ticket.
C4_Witness ==
    /\ push_ticket - pop_ticket = N
    /\ pop_ticket > 0
    /\ \E t \in Producers : th[t].pc = "push_load_pop"
    /\ \E t \in Consumers : th[t].pc = "pop_cas"

\* C5: on one thread, every call returns what a bounded FIFO of capacity N
\* returns for the same call.
C5_SequentialFifo == last.ret = last.exp

\* A push refused, and (separately) an item popped, after the ring wrapped.
C5_Witness ==
    /\ Len(push_log) > N
    /\ last.op = "push"
    /\ last.ret.kind = "full"
    /\ pop_ticket > N

\* The positions of a push call that holds no ticket, the call included.
PushTicketless == {"idle", "push_load_push", "push_load_pop", "push_cas"}

\* C15: a push that returns full hands back the very item it was given,
\* returns as soon as it finds the queue full, and none of its steps changes
\* push_ticket, pop_ticket or any slot.
C15_FailedPushNoEffect ==
    [][\A t \in Producers :
          /\ (th'[t] # th[t] /\ th[t].pc \in PushTicketless
                 /\ th'[t].pc # "push_wait")
                => UNCHANGED <<push_ticket, pop_ticket, slots>>
          /\ (th'[t] # th[t] /\ th[t].pc = "push_load_pop"
                 /\ QueueFull(th[t].cur_push, pop_ticket))
                => /\ Returns(t)
                   /\ RetOf(t) = [kind |-> "full", val |-> NextItem(t)]]_vars

\* A producer is about to find the ring full on its second lap.
C15_Witness ==
    \E t \in Producers :
        /\ th[t].pc = "push_load_pop"
        /\ QueueFull(th[t].cur_push, pop_ticket)
        /\ th[t].cur_push > N
        /\ pop_ticket > 0

\* The positions of a pop call that holds no ticket, the call included.
PopTicketless == {"idle", "pop_load_pop", "pop_load_push", "pop_cas"}

\* C16: a pop that finds push_ticket = pop_ticket at its loads (the counters
\* did not move since it loaded pop_ticket) returns the empty signal at once:
\* it never waits on a slot, and none of its steps changes push_ticket,
\* pop_ticket or any slot.
C16_PopOnEmpty ==
    [][\A t \in Consumers :
          /\ (th'[t] # th[t] /\ th[t].pc = "pop_load_push"
                 /\ th[t].cur_pop = pop_ticket /\ push_ticket = pop_ticket)
                => /\ Returns(t)
                   /\ RetOf(t) = [kind |-> "empty", val |-> 0]
          /\ (th'[t] # th[t] /\ th[t].pc \in PopTicketless
                 /\ th'[t].pc # "pop_wait")
                => UNCHANGED <<push_ticket, pop_ticket, slots>>]_vars

\* A consumer is about to find the queue empty after payloads have gone
\* through it.
C16_Witness ==
    \E t \in Consumers :
        /\ th[t].pc = "pop_load_push"
        /\ th[t].cur_pop = pop_ticket
        /\ push_ticket = pop_ticket
        /\ pop_ticket >= N

\* The positions of a thread that holds a ticket: inside Slot::push / pop.
TicketHeld == {"push_wait", "push_occupy", "push_write", "push_update",
               "pop_wait", "pop_read", "pop_release", "pop_update"}

\* C11: under weak fairness on every thread, every push or pop that holds a
\* ticket eventually returns, and the finite stream the producers offer (with
\* retry on full) is eventually popped whole by the retrying consumers.
C11_TicketHolderReturns ==
    /\ \A t \in Threads : (th[t].pc \in TicketHeld) ~> (th[t].pc = "idle")
    /\ <>(Len(pop_log) = MaxTicket)

\* A producer of the second lap waits for its slot's turn while the consumer
\* of the first lap is still inside the slot.
C11_Witness ==
    \E p \in Producers, c \in Consumers :
        /\ Cardinality(running) = MaxLive
        /\ th[p].pc = "push_wait"
        /\ th[p].ticket >= N
        /\ ~SpinReached(slots[Offset(th[p].ticket)].seq,
                        PushTurn(Generation(th[p].ticket)))
        /\ th[c].pc = "pop_read"
        /\ th[c].ticket = th[p].ticket - N

\* The threads between the wait on slot i and the update that ends their turn,
\* and those of them that have accessed the cell already.
InCell(i) == {t \in Threads : /\ th[t].pc \in TicketHeld \ {"push_wait", "pop_wait"}
                              /\ Offset(th[t].ticket) = i}
Accessed(i) == {t \in InCell(i) : th[t].pc \in {"push_update", "pop_release",
                                                 "pop_update"}}
\* The writes and the reads of the cell of slot i so far.
Writes(i) == Cardinality({d \in deposit : Offset(d[1]) = i})
Reads(i) == Cardinality({d \in taken : Offset(d[1]) = i})

\* C18: on every slot the cell is written and read in strict alternation,
\* starting with a write: generation g is written after g writes and g reads,
\* and read after g + 1 writes and g reads; at most one thread is inside the
\* cell access of a slot; and the slot's counter counts the accesses, rising
\* by exactly one at each update.
C18_SlotAlternation ==
    /\ [](\A i \in DOMAIN slots :
            /\ Cardinality(InCell(i)) <= 1
            /\ Writes(i) - Reads(i) \in {0, 1}
            /\ slots[i].seq = Writes(i) + Reads(i) - Cardinality(Accessed(i))
            /\ \A t \in InCell(i) :
                  /\ th[t].pc \in {"push_occupy", "push_write"} =>
                        /\ Writes(i) = Generation(th[t].ticket)
                        /\ Reads(i) = Generation(th[t].ticket)
                        /\ slots[i].seq = 2 * Generation(th[t].ticket)
                  /\ th[t].pc = "pop_read" =>
                        /\ Writes(i) = Generation(th[t].ticket) + 1
                        /\ Reads(i) = Generation(th[t].ticket)
                        /\ slots[i].seq = 2 * Generation(th[t].ticket) + 1)
    /\ [][\A i \in DOMAIN slots :
            slots'[i].seq # slots[i].seq => slots'[i].seq = slots[i].seq + 1]_vars

\* A consumer reads the second generation of one slot while another thread
\* is inside the cell access of the other slot.
C18_Witness ==
    \E c \in Consumers, t \in Threads :
        /\ th[c].pc = "pop_read"
        /\ th[c].ticket >= N
        /\ t # c
        /\ \E i \in DOMAIN slots : i # Offset(th[c].ticket) /\ t \in InCell(i)

\* C22: whenever a producer's wait for 2 * generation on its slot succeeds
\* (the counter holds that value while it waits, or it has passed the wait
\* and is at the compare-and-swap), the slot's occupancy flag is false, so the
\* compare-and-swap succeeds at its first attempt.
C22_FlagRedundant ==
    \A t \in Producers :
        \/ th[t].pc = "push_occupy"
        \/ /\ th[t].pc = "push_wait"
           /\ SpinReached(slots[Offset(th[t].ticket)].seq,
                          PushTurn(Generation(th[t].ticket)))
        => ~slots[Offset(th[t].ticket)].occupied

\* A producer of the second lap is at the compare-and-swap of a slot whose
\* first generation was written and read.
C22_Witness ==
    \E t \in Producers :
        /\ th[t].pc = "push_occupy"
        /\ th[t].ticket >= N
        /\ Reads(Offset(th[t].ticket)) >= 1

\* The threads that hold a push ticket, and those that hold a pop ticket.
PushHolders == {t \in Threads : th[t].pc \in {"push_wait", "push_occupy",
                                               "push_write", "push_update"}}
PopHolders == {t \in Threads : th[t].pc \in {"pop_wait", "pop_read",
                                              "pop_release", "pop_update"}}

\* C25: a push returns full only at an instant of its call at which
\* push_ticket - pop_ticket = N, and a pop returns empty only at an instant
\* at which push_ticket = pop_ticket; a push that read a push ticket older
\* than the pop ticket loses its compare-and-swap; and no ticket is held by
\* two calls.
C25_NoSpuriousFailure ==
    /\ [][/\ \A t \in Producers :
              (th[t].pc = "push_load_pop" /\ th'[t].pc = "idle")
                 => push_ticket - pop_ticket = N
          /\ \A t \in Consumers :
              (th[t].pc = "pop_load_push" /\ th'[t].pc = "idle")
                 => push_ticket = pop_ticket]_vars
    /\ [](/\ \A t \in Producers :
              (th[t].pc = "push_cas" /\ th[t].cur_push < pop_ticket)
                 => ~PushCasWins(t)
          /\ \A t, u \in PushHolders : th[t].ticket = th[u].ticket => t = u
          /\ \A t, u \in PopHolders : th[t].ticket = th[u].ticket => t = u
          /\ \A t \in PushHolders : th[t].ticket < push_ticket
          /\ \A t \in PopHolders : th[t].ticket < pop_ticket)

\* A producer goes to its compare-and-swap with a push ticket it read before
\* the pop ticket passed it, while a consumer that read an old pop ticket is
\* about to load the push ticket.
C25_Witness ==
    /\ \E t \in Producers : th[t].pc = "push_cas" /\ th[t].cur_push < pop_ticket
    /\ \E c \in Consumers : th[c].pc = "pop_load_push" /\ th[c].cur_pop < pop_ticket

(***************************************************************************)
(* Claims about the timing wheel.                                          *)
(***************************************************************************)
FastForwardReturned == wlast.op = "fast_forward" /\ wlast.ok
\* The sink calls of the last call of the wheel, as positions of sunk.
Batch == (wlast.mark + 1)..Len(sunk)
\* How often an item sits in the buckets of the wheel.
StoredCount(a) ==
    Cardinality({<<l, b, j>> \in (0..(LEVEL - 1)) \X (0..(W - 1)) \X (1..MaxItems) :
                    j <= Len(levels[l].slots[b]) /\ levels[l].slots[b][j] = a})
\* The items accepted and not yet handed to the sink.
Pending == {a \in accepted : Count(sunk, a) = 0}

\* C6: when fast_forward(T, sink) has returned, every item schedule accepted
\* with tick <= T has been handed to the sink exactly once, with its payload
\* and its scheduled tick, and no item with tick > T has: those are still
\* stored, once.
C6_Completeness ==
    FastForwardReturned =>
        /\ \A a \in accepted : a[2] <= elapsed => Count(sunk, a) = 1
        /\ \A a \in accepted : a[2] > elapsed =>
                                  Count(sunk, a) = 0 /\ StoredCount(a) = 1
        /\ \A i \in DOMAIN sunk : sunk[i] \in accepted

\* A fast_forward that delivered one item and left a later one stored.
C6_Witness ==
    /\ FastForwardReturned
    /\ Batch # {}
    /\ \E a \in accepted : a[2] > elapsed
    /\ elapsed >= W * W

\* C7: while an item is scheduled, min_next_event returns a tick that is at
\* most the tick of every scheduled item.
C7_MinNextLowerBound ==
    Pending # {} =>
        /\ min_next_event(elapsed, levels).kind = "some"
        /\ \A a \in Pending : min_next_event(elapsed, levels).val <= a[2]

\* Two items are scheduled at a coarse level after time has advanced, and
\* min_next_event underestimates the earlier of them.
C7_Witness ==
    /\ elapsed > 0
    /\ Cardinality(Pending) = 2
    /\ \A a \in Pending : min_next_event(elapsed, levels).val < a[2]

\* C8 as stated: of two items delivered by one fast_forward that both lay
\* below the top level when it started, the one with the smaller tick is
\* handed to the sink first.
C8_OrderBelowTop ==
    FastForwardReturned =>
        \A i, j \in Batch :
            /\ \E x \in wlast.below : x[1] = sunk[i][1]
            /\ \E y \in wlast.below : y[1] = sunk[j][1]
            /\ sunk[i][2] < sunk[j][2]
            => i < j

\* C8 as amended: the same for two items that lay in different buckets below
\* the top level when the call started.
C8_OrderAcrossBuckets ==
    FastForwardReturned =>
        \A i, j \in Batch :
            /\ \E x, y \in wlast.below :
                  /\ x[1] = sunk[i][1]
                  /\ y[1] = sunk[j][1]
                  /\ <<x[2], x[3]>> # <<y[2], y[3]>>
            /\ sunk[i][2] < sunk[j][2]
            => i < j

\* One fast_forward delivered two items of different ticks from two buckets
\* of one level below its top level.
C8_Witness ==
    /\ FastForwardReturned
    /\ \E i, j \in Batch :
          /\ sunk[i][2] < sunk[j][2]
          /\ \E x, y \in wlast.below :
                /\ x[1] = sunk[i][1]
                /\ y[1] = sunk[j][1]
                /\ x[2] = y[2]
                /\ x[2] > 0
                /\ x[3] # y[3]

\* C9: fast_forward to the current elapsed returns normally (and calls the
\* sink no time, and changes nothing).
C9_ZeroStep ==
    (wlast.op = "fast_forward" /\ wlast.zero) =>
        /\ wlast.ok
        /\ ~aborted
        /\ Batch = {}

\* C12: a schedule of a tick before elapsed returns rejected with the payload
\* it was handed, and leaves elapsed, every bucket and every bitset as they
\* were.
C12_PastScheduleRejected ==
    [][(next_id' = next_id + 1 /\ wlast'.past) =>
          /\ ~wlast'.ok
          /\ wlast'.err = next_id
          /\ elapsed' = elapsed
          /\ levels' = levels]_vars

\* A schedule in the past was refused while another item is stored.
C12_Witness ==
    /\ wlast.op = "schedule"
    /\ wlast.past
    /\ ~wlast.ok
    /\ Pending # {}
    /\ elapsed > W

\* The levels that hold an item, and the buckets of a level that do.
NonEmptyLevels == {l \in 0..(LEVEL - 1) :
                      \E b \in 0..(W - 1) : levels[l].slots[b] # <<>>}
NonEmptyBuckets(l) == {b \in 0..(W - 1) : levels[l].slots[b] # <<>>}
Lowest(S) == CHOOSE x \in S : \A y \in S : x <= y
\* The tick whose bits above level l are those of elapsed, whose level-l digit
\* is b and whose lower bits are zero.
LowestTickOf(l, b) == ((elapsed \div (W ^ (l + 1))) * W + b) * (W ^ l)
\* The items stored at level 0.
AtLevelZero == {a \in Pending : \E b \in 0..(W - 1), j \in 1..MaxItems :
                   j <= Len(levels[0].slots[b]) /\ levels[0].slots[b][j] = a}

\* C13: while an item is stored, min_next_event returns the tick built from
\* the lowest non-empty level and its lowest non-empty bucket; when the item
\* of the smallest scheduled tick lies at level 0, that is its tick exactly.
C13_MinNextValue ==
    NonEmptyLevels # {} =>
        /\ min_next_event(elapsed, levels) =
              [kind |-> "some",
               val |-> LowestTickOf(Lowest(NonEmptyLevels),
                                    Lowest(NonEmptyBuckets(Lowest(NonEmptyLevels))))]
        /\ \A a \in AtLevelZero :
              (\A c \in Pending : a[2] <= c[2]) =>
                  min_next_event(elapsed, levels).val = a[2]

\* Time has advanced, one item lies at level 0 and a later one above it.
C13_Witness ==
    /\ elapsed > W
    /\ AtLevelZero # {}
    /\ Cardinality(NonEmptyLevels) = 2
    /\ min_next_event(elapsed, levels).kind = "some"
    /\ \E a \in AtLevelZero : min_next_event(elapsed, levels).val = a[2]

\* C14: min_next_event returns none exactly when no item is scheduled: on a
\* fresh wheel, and when every accepted item has been delivered.
C14_MinNextNoneIffEmpty ==
    (min_next_event(elapsed, levels).kind = "none") <=> (Pending = {})

\* Every accepted item has been delivered, the last of them out of the
\* bucket that fast_forward took from a level above level 0.
C14_Witness ==
    /\ FastForwardReturned
    /\ Cardinality(accepted) = MaxItems
    /\ Pending = {}
    /\ Batch # {}
    /\ elapsed > W
    /\ min_next_event(elapsed, levels).kind = "none"

\* The level whose digit is the highest digit in which tick and elapsed
\* differ (level 0 when they are equal), and the digit of tick at a level.
HomeLevel(tick) ==
    IF tick = elapsed THEN 0
    ELSE CHOOSE l \in 0..(LEVEL - 1) :
            /\ tick \div (W ^ l) # elapsed \div (W ^ l)
            /\ tick \div (W ^ (l + 1)) = elapsed \div (W ^ (l + 1))
Digit(tick, l) == (tick \div (W ^ l)) % W
\* The places <<level, bucket, index>> of the wheel that hold an item.
Places == {x \in (0..(LEVEL - 1)) \X (0..(W - 1)) \X (1..MaxItems) :
              x[3] <= Len(levels[x[1]].slots[x[2]])}

\* C19: every stored item lies at the level of the highest bit in which its
\* tick differs from elapsed (level 0 if the tick equals elapsed), in the
\* bucket of its tick's digit at that level, its tick is not before elapsed,
\* and it is stored in exactly one place.
C19_Placement ==
    \A x \in Places :
        LET a == levels[x[1]].slots[x[2]][x[3]] IN
        /\ a[2] >= elapsed
        /\ x[1] = HomeLevel(a[2])
        /\ x[2] = Digit(a[2], x[1])
        /\ StoredCount(a) = 1
        /\ a \in Pending

\* After a fast_forward past the first lap of level 0, a still pending item
\* lies at level 0 and another item lies at a level above.
C19_Witness ==
    /\ FastForwardReturned
    /\ elapsed > W
    /\ \E x, y \in Places :
          /\ x[1] = 0
          /\ y[1] > 0
          /\ levels[x[1]].slots[x[2]][x[3]][2] > elapsed
          /\ \E b \in accepted : b = levels[x[1]].slots[x[2]][x[3]]
                                     /\ b[2] \div W # 0

\* The items a sequence of sink calls delivered.
Delivered(out) == {out[k] : k \in DOMAIN out}

\* C20: whenever min_next_event returns a tick m, fast_forward(m, sink) passes
\* its precondition, and it delivers every item with tick <= m.
C20_FollowUpFastForward ==
    (~aborted /\ min_next_event(elapsed, levels).kind = "some") =>
        LET m == min_next_event(elapsed, levels).val IN
        /\ FastForwardAllowed(elapsed, m)
        /\ \A a \in Pending :
              a[2] <= m => a \in Delivered(fast_forward(kind, elapsed, levels, m).out)

\* How often an item sits in the buckets of the levels lv.
StoredIn(lv, a) ==
    Cardinality({x \in (0..(LEVEL - 1)) \X (0..(W - 1)) \X (1..MaxItems) :
                    x[3] <= Len(lv[x[1]].slots[x[2]])
                    /\ lv[x[1]].slots[x[2]][x[3]] = a})

\* C21: a schedule at the current elapsed whose bucket is not full is
\* accepted and puts the item into bucket elapsed mod W of level 0; and an
\* item stored with tick = elapsed is handed to the sink exactly once by a
\* fast_forward to any later target.
C21_ScheduleAtElapsed ==
    /\ [][(Schedule(elapsed)
             /\ (kind = "bounded" => Len(levels[0].slots[elapsed % W]) < M))
           => /\ wlast'.ok
              /\ <<next_id, elapsed>> \in accepted'
              /\ \E j \in 1..Len(levels'[0].slots[elapsed % W]) :
                    levels'[0].slots[elapsed % W][j] = <<next_id, elapsed>>
              /\ StoredIn(levels', <<next_id, elapsed>>) = 1]_vars
    /\ [](\A a \in Pending : (~aborted /\ a[2] = elapsed) =>
            \A moment \in (elapsed + 1)..MaxTick :
                Count(fast_forward(kind, elapsed, levels, moment).out, a) = 1)

\* After time has advanced, an item was scheduled at the current elapsed.
C21_Witness ==
    /\ wlast.op = "schedule"
    /\ wlast.ok
    /\ elapsed > W
    /\ \E a \in Pending : a[1] = next_id - 1 /\ a[2] = elapsed

\* Bit i of the bitset of a level is set exactly when bucket i holds an
\* item, and no bit beyond the buckets is set.
LevelConsistent(level) ==
    /\ level.bitset < 2 ^ W
    /\ \A i \in 0..(W - 1) : (Bit(level.bitset, i) = 1) <=> (level.slots[i] # <<>>)

\* C23: in every state of the wheel every level's bitset agrees with its
\* buckets, and it still does after any push_at (accepted or refused), pop_at,
\* drain_until or replace_slot on that level.
C23_BitsetInvariant ==
    \A l \in 0..(LEVEL - 1) :
        /\ LevelConsistent(levels[l])
        /\ \A at \in 0..(W - 1) :
              /\ LevelConsistent(push_at(kind, levels[l], at, NoItem).level)
              /\ LevelConsistent(pop_at(levels[l], at).level)
              /\ LevelConsistent(replace_slot(levels[l], at, SlotEmpty).level)
        /\ \A until \in 0..W : LevelConsistent(drain_until(levels[l], until).level)

\* After time has advanced, a push into a full bounded bucket was refused.
C23_Witness ==
    /\ kind = "bounded"
    /\ wlast.op = "schedule"
    /\ ~wlast.ok
    /\ ~wlast.past
    /\ elapsed > W
    /\ \E l \in 1..(LEVEL - 1) : levels[l].bitset # 0

\* C24: in every state and for every later target, no re-schedule made by
\* the cascade of fast_forward is refused: no payload is lost, and every item
\* not yet due is stored exactly once afterwards.
C24_CascadeKeepsItems ==
    ~aborted =>
        \A moment \in (elapsed + 1)..MaxTick :
            /\ fast_forward(kind, elapsed, levels, moment).lost = {}
            /\ \A a \in Pending :
                  a[2] > moment =>
                      StoredIn(fast_forward(kind, elapsed, levels, moment).levels, a) = 1

\* After time has advanced, a fast_forward would take an item out of the
\* bounded bucket it lands on and re-schedule it into a lower level.
C24_Witness ==
    /\ kind = "bounded"
    /\ ~aborted
    /\ elapsed > 0
    /\ \E moment \in (elapsed + 1)..MaxTick, x \in Places :
          LET a == levels[x[1]].slots[x[2]][x[3]]
              after == fast_forward(kind, elapsed, levels, moment).levels
          IN /\ a[2] > moment
             /\ x[1] = TopLevel(elapsed, moment)
             /\ after[x[1]].slots[x[2]] = <<>>
             /\ \E l \in 0..(x[1] - 1) : \E b \in 0..(W - 1) : after[l].slots[b] = <<a>>

(***************************************************************************)
(* Claims about destruction.                                               *)
(***************************************************************************)
\* C17: destroying a queue or a wheel drops every payload still resident
\* exactly once, and drops no payload that was popped or delivered before.
C17_DropDiscipline ==
    /\ destroyed = "queue" =>
          /\ \A i \in Resident : Count(dropped, slots[i].data) = 1
          /\ \A k \in DOMAIN pop_log : Count(dropped, pop_log[k]) = 0
    /\ destroyed = "wheel" =>
          /\ \A a \in Pending : Count(dropped, a[1]) = 1
          /\ \A k \in DOMAIN sunk : Count(dropped, sunk[k][1]) = 0

(***************************************************************************)
(* Claims about the sequencers.                                            *)
(***************************************************************************)
\* C10: for the spin and for the condition-variable sequencer, wait_until
\* returns success only when the counter equals the target.
C10_WaitReachesTarget ==
    \A t \in Waiters : waiter[t].ret = "ok" => waiter[t].seen = waiter[t].sequence

====
